---- MODULE Spec2Model ----
(***************************************************************************)
(* Model of sampitor's file-system boundary, src/io/path.rs:               *)
(*   name          - file name of a path                                   *)
(*   sorted_names  - directory listing, subdirectories first               *)
(*   write_samples - encode a sample buffer as a 32-bit float WAV file     *)
(*   read_samples  - decode an audio file into a sample buffer             *)
(* A path and a file name are sequences of bytes.  A sample is a rational  *)
(* [num, den].  Every Result<T> of the source is a record with an ok flag. *)
(***************************************************************************)
EXTENDS Integers, Sequences, FiniteSets, TLC

VARIABLES
    pc,          \* position of the running operation
    handle,      \* the directory / file handle of the running operation
    misuse,      \* TRUE once a handle was used while not open
    path,        \* name: the argument
    nameResult,  \* name: the returned Result<&str>
    children,    \* sorted_names: the directory snapshot, a set of inodes
    remaining,   \* sorted_names: inodes read_dir has not yet yielded
    files,       \* sorted_names: the Vec<(String, bool)> being filled
    listResult,  \* sorted_names: the returned Result<Vec<(String, bool)>>
    faulted,     \* sorted_names: TRUE once a step of this call has failed
    prev,        \* sorted_names: the result of the earlier call on this snapshot
    first,       \* sorted_names: the name read_dir yielded first in this call
    prevFirst,   \* sorted_names: the name read_dir yielded first in the earlier call
    samples,     \* write_samples: the Samples argument
    spec,        \* write_samples: the WavSpec handed to WavWriter::create
    stream,      \* write_samples: the samples handed to write_sample, in order
    wfault,      \* write_samples: which step failed ("none" when none did)
    writeResult, \* write_samples: the returned Result<()>
    file,        \* the file at the path, as it is on disk
    rfault,      \* read_samples: which step failed ("none" when none did)
    readResult   \* read_samples: the returned Result<Samples>

vars == <<pc, handle, misuse, path, nameResult, children, remaining, files,
          listResult, faulted, prev, first, prevFirst, samples, spec, stream, wfault,
          writeResult, file, rfault, readResult>>

nameVars == <<path, nameResult>>
listVars ==
    <<children, remaining, files, listResult, faulted, prev, first, prevFirst>>
codecVars == <<samples, spec, stream, wfault, writeResult, file, rfault, readResult>>

\* Longest path handed to name.
MaxPathLen == 4

\* Most children of the listed directory.
MaxChildren == 4

\* Most samples of the buffer handed to write_samples.
MaxData == 4

Min(a, b) == IF a < b THEN a ELSE b

Abs(a) == IF a < 0 THEN -a ELSE a

\* The sequences over S of length at most n.
SeqsUpTo(S, n) == UNION {[1..k -> S] : k \in 0..n}

\* A Result that has not been returned yet.
Pending == [ok |-> FALSE, err |-> "pending"]

Err(kind) == [ok |-> FALSE, err |-> kind]

Ok(v) == [ok |-> TRUE, val |-> v]

----------------------------------------------------------------------------
(* std::path on Unix, as name uses it (path.rs:16-19).                     *)

\* The path separator '/'.
Slash == 47

\* The byte '.'.
Dot == 46

\* A byte that occurs in no UTF-8 encoding.
BadByte == 255

\* The letter 'x'.
LetterX == 120

ParentDir == <<Dot, Dot>>

CurDir == <<Dot>>

\* Path::components: the pieces between separators; empty pieces (repeated or
\* trailing separators) are dropped and so is every "." piece: a leading "."
\* is the CurDir component, which is no file name either.
RECURSIVE Pieces(_, _, _)
Pieces(p, i, cur) ==
    IF i > Len(p)
    THEN IF cur = <<>> THEN <<>> ELSE <<cur>>
    ELSE IF p[i] = Slash
         THEN (IF cur = <<>> THEN <<>> ELSE <<cur>>) \o Pieces(p, i + 1, <<>>)
         ELSE Pieces(p, i + 1, Append(cur, p[i]))

Components(p) == SelectSeq(Pieces(p, 1, <<>>), LAMBDA c : c # CurDir)

\* A file_name that sees no component after a trailing separator.
FileNameNoTrailing(p) ==
    LET cs == Pieces(p, 1, <<>>)
    IN IF Len(p) = 0 \/ p[Len(p)] = Slash \/ cs = <<>> THEN <<>>
       ELSE IF cs[Len(cs)] \in {ParentDir, CurDir} THEN <<>>
       ELSE cs[Len(cs)]

\* Path::file_name: the last component when it is a normal one; None (<<>>)
\* when there is none (empty path, root) or when the path ends in "..".
FileName(p) ==
    LET cs == Components(p)
    IN IF cs = <<>> \/ cs[Len(cs)] = ParentDir THEN <<>> ELSE cs[Len(cs)]

\* OsStr::to_str succeeds on valid UTF-8.  The model's bytes are ASCII and
\* BadByte; an ASCII byte is a code point, BadByte is part of none.
ValidUnicode(s) == \A i \in DOMAIN s : s[i] < 128

\* name (path.rs:15-20).
Name(p) ==
    IF FileName(p) = <<>> THEN Err("no final component")
    ELSE IF ~ValidUnicode(FileName(p)) THEN Err("not valid Unicode")
    ELSE Ok(FileName(p))

PathBytes == {Slash, Dot, LetterX, BadByte}

Paths == SeqsUpTo(PathBytes, MaxPathLen)

IdleList ==
    /\ children = {} /\ remaining = {} /\ files = <<>>
    /\ listResult = Pending /\ faulted = FALSE
    /\ prev = Pending /\ first = <<>> /\ prevFirst = <<>>

IdleCodec ==
    /\ samples = [channels |-> 1, sample_rate |-> 1, data |-> <<>>]
    /\ spec = Pending /\ stream = <<>> /\ wfault = "none"
    /\ writeResult = Pending /\ file = [kind |-> "absent"]
    /\ rfault = "none" /\ readResult = Pending

IdleName == path = <<>> /\ nameResult = Pending

InitName ==
    /\ pc = "name"
    /\ handle = "none" /\ misuse = FALSE
    /\ path \in Paths
    /\ nameResult = Pending
    /\ IdleList /\ IdleCodec

NameCall ==
    /\ pc = "name"
    /\ nameResult' = Name(path)
    /\ pc' = "name_done"
    /\ UNCHANGED <<handle, misuse, path, listVars, codecVars>>

NextName == NameCall

SpecName == InitName /\ [][NextName]_vars

----------------------------------------------------------------------------
(* The final component of a path, stated without the parser: a maximal     *)
(* separator-free piece p[i..j] other than "." that only separators and    *)
(* lone "." pieces follow.                                                 *)

TrailerSkipped(p, j) ==
    \A k \in (j + 1)..Len(p) :
        /\ p[k] \in {Slash, Dot}
        /\ p[k] = Dot => p[k - 1] = Slash /\ (k = Len(p) \/ p[k + 1] = Slash)

LastPieceAt(p, i, j) ==
    /\ 1 <= i /\ i <= j /\ j <= Len(p)
    /\ \A k \in i..j : p[k] # Slash
    /\ i = 1 \/ p[i - 1] = Slash
    /\ j = Len(p) \/ p[j + 1] = Slash
    /\ SubSeq(p, i, j) # CurDir
    /\ TrailerSkipped(p, j)

HasLastPiece(p) == \E i, j \in 1..Len(p) : LastPieceAt(p, i, j)

\* C4, as amended: name returns the text of the path's last component, where
\* trailing separators and "." pieces are skipped, whenever that component is
\* a normal one and valid Unicode; it fails with "no final component" when
\* there is no such component or it is "..", and with "not valid Unicode"
\* when its bytes are no text; a failure carries no text.
NameFinalComponent ==
    pc = "name_done" =>
        /\ \A i, j \in 1..Len(path) :
              LastPieceAt(path, i, j) =>
                  LET c == SubSeq(path, i, j)
                  IN nameResult =
                         IF c = ParentDir THEN Err("no final component")
                         ELSE IF ~ValidUnicode(c) THEN Err("not valid Unicode")
                         ELSE Ok(c)
        /\ ~HasLastPiece(path) => nameResult = Err("no final component")
        /\ ~nameResult.ok => DOMAIN nameResult = {"ok", "err"}

\* A path that ends in a separator still has a file name.
NameWitness ==
    /\ pc = "name_done"
    /\ path = <<LetterX, Dot, LetterX, Slash>>
    /\ nameResult = Ok(<<LetterX, Dot, LetterX>>)

\* C4 as stated: the text of the final component when it exists and is valid
\* Unicode, and a failure for the root and for every path that ends in a
\* separator.
NameFailsOnTrailingSeparator ==
    pc = "name_done" =>
        /\ (path = <<>> \/ path[Len(path)] = Slash) => ~nameResult.ok
        /\ \A i \in 1..Len(path) :
              /\ LastPieceAt(path, i, Len(path))
              /\ SubSeq(path, i, Len(path)) # ParentDir
              /\ ValidUnicode(SubSeq(path, i, Len(path)))
              => nameResult = Ok(SubSeq(path, i, Len(path)))

----------------------------------------------------------------------------
(* sorted_names (path.rs:43-64).                                           *)

\* File names of the listed directory: "a", "b", "c", "d", "ab" and a name
\* that is not valid Unicode.
Names == {<<97>>, <<98>>, <<99>>, <<100>>, <<97, 98>>, <<BadByte>>}

\* A child of the directory: its file name and whether it is a directory.
Inodes == [name : Names, is_dir : BOOLEAN]

\* A directory holds no two children of one name.
Snapshots ==
    {c \in SUBSET Inodes :
        /\ Cardinality(c) <= MaxChildren
        /\ \A x, y \in c : x.name = y.name => x = y}

\* The directory argument, "/x".
Directory == <<Slash, LetterX>>

\* DirEntry::path: the directory joined with the child's file name.
Join(dir, n) == dir \o <<Slash>> \o n

\* str::cmp: byte-wise lexicographic order.
RECURSIVE StrCmp(_, _)
StrCmp(a, b) ==
    IF a = <<>> /\ b = <<>> THEN "Equal"
    ELSE IF a = <<>> THEN "Less"
    ELSE IF b = <<>> THEN "Greater"
    ELSE IF a[1] < b[1] THEN "Less"
    ELSE IF a[1] > b[1] THEN "Greater"
    ELSE StrCmp(Tail(a), Tail(b))

\* A comparator that forgets the directories-first rule.
CompareNamesOnly(left, right) == StrCmp(left[1], right[1])

\* A comparator that only separates directories from files.
CompareKindsOnly(left, right) ==
    IF left[2] /\ ~right[2] THEN "Less"
    ELSE IF ~left[2] /\ right[2] THEN "Greater"
    ELSE "Equal"

\* The closure handed to sort_by (path.rs:54-62); an entry is <<name, is_dir>>.
Compare(left, right) ==
    IF left[2] /\ ~right[2] THEN "Less"
    ELSE IF ~left[2] /\ right[2] THEN "Greater"
    ELSE StrCmp(left[1], right[1])

\* slice::sort_by is a stable sort; on a slice this short it is an insertion
\* sort: each element moves left past the elements it is Less than.
RECURSIVE InsertTail(_, _)
InsertTail(s, x) ==
    IF s = <<>> THEN <<x>>
    ELSE IF Compare(x, s[Len(s)]) = "Less"
         THEN Append(InsertTail(SubSeq(s, 1, Len(s) - 1), x), s[Len(s)])
         ELSE Append(s, x)

RECURSIVE SortBy(_)
SortBy(v) ==
    IF v = <<>> THEN <<>>
    ELSE InsertTail(SortBy(SubSeq(v, 1, Len(v) - 1)), v[Len(v)])

InitList ==
    /\ pc = "read_dir"
    /\ handle = "none" /\ misuse = FALSE
    /\ children \in Snapshots
    /\ remaining = {} /\ files = <<>>
    /\ listResult = Pending /\ faulted = FALSE
    /\ prev = Pending /\ first = <<>> /\ prevFirst = <<>>
    /\ IdleName /\ IdleCodec

\* directory.read_dir()? (path.rs:46).
ReadDir ==
    /\ pc = "read_dir"
    /\ \E opened \in BOOLEAN :
          IF opened
          THEN /\ handle' = "open"
               /\ remaining' = children
               /\ pc' = "list_loop"
               /\ UNCHANGED <<listResult, faulted>>
          ELSE /\ listResult' = Err("DirectoryUnreadable")
               /\ faulted' = TRUE
               /\ pc' = "list_done"
               /\ UNCHANGED <<handle, remaining>>
    /\ UNCHANGED <<misuse, children, files, prev, first, prevFirst,
                   nameVars, codecVars>>

\* A loop body that skips a child whose file type cannot be read.
NextInodeSkipping ==
    /\ pc = "list_loop"
    /\ remaining # {}
    /\ \E inode \in remaining, outcome \in {"ok", "inode", "file_type"} :
          LET n == Name(Join(Directory, inode.name))
          IN /\ misuse' = (misuse \/ handle # "open")
             /\ faulted' = (faulted \/ outcome # "ok" \/ ~ValidUnicode(inode.name))
             /\ first' = IF files = <<>> /\ first = <<>> THEN inode.name ELSE first
             /\ IF outcome = "inode" \/ ~n.ok
                THEN /\ listResult' =
                            IF outcome = "inode" THEN Err("IoError") ELSE n
                     /\ handle' = "closed"
                     /\ pc' = "list_done"
                     /\ UNCHANGED <<files, remaining>>
                ELSE /\ files' = IF outcome = "file_type" THEN files
                                 ELSE Append(files, <<n.val, inode.is_dir>>)
                     /\ remaining' = remaining \ {inode}
                     /\ UNCHANGED <<listResult, handle, pc>>
    /\ UNCHANGED <<children, prev, prevFirst, nameVars, codecVars>>

\* One turn of the loop (path.rs:46-52): read_dir yields a child in any order;
\* inode?, name(..)? and file_type()? each return early, which drops the
\* ReadDir handle; otherwise the entry is pushed.
NextInode ==
    /\ pc = "list_loop"
    /\ remaining # {}
    /\ \E inode \in remaining, outcome \in {"ok", "inode", "file_type"} :
          LET n == Name(Join(Directory, inode.name))
          IN /\ misuse' = (misuse \/ handle # "open")
             /\ faulted' = (faulted \/ outcome # "ok" \/ ~ValidUnicode(inode.name))
             /\ first' = IF files = <<>> /\ first = <<>> THEN inode.name ELSE first
             /\ IF outcome = "inode" \/ ~n.ok \/ outcome = "file_type"
                THEN /\ listResult' =
                            IF outcome = "inode" THEN Err("IoError")
                            ELSE IF ~n.ok THEN n
                            ELSE Err("MetadataUnavailable")
                     /\ handle' = "closed"
                     /\ pc' = "list_done"
                     /\ UNCHANGED <<files, remaining>>
                ELSE /\ files' = Append(files, <<n.val, inode.is_dir>>)
                     /\ remaining' = remaining \ {inode}
                     /\ UNCHANGED <<listResult, handle, pc>>
    /\ UNCHANGED <<children, prev, prevFirst, nameVars, codecVars>>

\* A return that keeps the directory handle.
SortAndReturnLeaking ==
    /\ pc = "list_loop"
    /\ remaining = {}
    /\ files' = SortBy(files)
    /\ listResult' = Ok(files')
    /\ pc' = "list_done"
    /\ UNCHANGED <<handle, misuse, children, remaining, faulted, prev, first,
                   prevFirst, nameVars, codecVars>>

\* The loop ends, which drops the ReadDir handle; files.sort_by(..) and
\* Ok(files) (path.rs:54-63).
SortAndReturn ==
    /\ pc = "list_loop"
    /\ remaining = {}
    /\ handle' = "closed"
    /\ files' = SortBy(files)
    /\ listResult' = Ok(files')
    /\ pc' = "list_done"
    /\ UNCHANGED <<misuse, children, remaining, faulted, prev, first,
                   prevFirst, nameVars, codecVars>>

\* The caller lists the same snapshot once more after a successful call.
CallAgain ==
    /\ pc = "list_done"
    /\ prev = Pending
    /\ listResult.ok
    /\ prev' = listResult
    /\ prevFirst' = first
    /\ pc' = "read_dir"
    /\ handle' = "none"
    /\ remaining' = {} /\ files' = <<>> /\ first' = <<>>
    /\ listResult' = Pending /\ faulted' = FALSE
    /\ UNCHANGED <<misuse, children, nameVars, codecVars>>

NextList == ReadDir \/ NextInode \/ SortAndReturn \/ CallAgain

SpecList == InitList /\ [][NextList]_vars

----------------------------------------------------------------------------
(* Claims about sorted_names.                                              *)

\* Byte-wise lexicographic order, stated without recursion: a and b agree on
\* their first k bytes, and there a ends or has the smaller byte.
LexLess(a, b) ==
    \E k \in 0..Min(Len(a), Len(b)) :
        /\ \A m \in 1..k : a[m] = b[m]
        /\ \/ k = Len(a) /\ k < Len(b)
           \/ k < Len(a) /\ k < Len(b) /\ a[k + 1] < b[k + 1]

Listed == pc = "list_done" /\ listResult.ok

\* The directory of the test sort_folders_before_files (path.rs:100-103).
TestFolder ==
    {[name |-> <<97>>, is_dir |-> FALSE], [name |-> <<99>>, is_dir |-> TRUE],
     [name |-> <<98>>, is_dir |-> TRUE], [name |-> <<100>>, is_dir |-> FALSE]}

\* C1: a successful sorted_names returns every directory before every file,
\* each group in ascending byte-wise order of the names; the children
\* {a file, c dir, b dir, d file} give [(b,true),(c,true),(a,false),(d,false)].
DirectoriesFirstSorted ==
    Listed =>
        LET v == listResult.val
        IN /\ \A i, j \in 1..Len(v) :
                 i < j => /\ v[j][2] => v[i][2]
                          /\ v[i][2] = v[j][2] => LexLess(v[i][1], v[j][1])
           /\ children = TestFolder =>
                 v = << <<(<<98>>), TRUE>>, <<(<<99>>), TRUE>>,
                        <<(<<97>>), FALSE>>, <<(<<100>>), FALSE>> >>

\* The test's directory was listed, handed over in an order that is not the
\* sorted one.
DirectoriesFirstWitness ==
    /\ Listed
    /\ children = TestFolder
    /\ first = <<97>>
    /\ Len(listResult.val) = 4

\* C2: two successful calls on one snapshot return the same sequence, in
\* whatever order the file system handed the children to each.
EnumerationOrderHidden ==
    pc = "list_done" /\ prev.ok /\ listResult.ok => listResult.val = prev.val

\* Two calls that were handed different children first, on a snapshot with two
\* files and a directory.
EnumerationOrderWitness ==
    /\ Listed /\ prev.ok
    /\ prevFirst # first
    /\ Cardinality({c \in children : ~c.is_dir}) >= 2
    /\ \E c \in children : c.is_dir

\* C3: sorted_names is all-or-nothing: a call in which read_dir, an inode, a
\* name or a file type failed returns a failure that carries no list, and a
\* returned list holds exactly one entry for every child of the directory.
AllOrNothingListing ==
    pc = "list_done" =>
        /\ faulted => ~listResult.ok
        /\ ~listResult.ok => DOMAIN listResult = {"ok", "err"}
        /\ listResult.ok =>
              /\ Len(listResult.val) = Cardinality(children)
              /\ {listResult.val[i] : i \in 1..Len(listResult.val)}
                     = {<<c.name, c.is_dir>> : c \in children}

\* A file type failed after two entries had been pushed: no list comes back.
AllOrNothingWitness ==
    /\ pc = "list_done"
    /\ Len(files) = 2
    /\ listResult = Err("MetadataUnavailable")

----------------------------------------------------------------------------
(* write_samples (path.rs:71-86) and read_samples (path.rs:27-36).  The    *)
(* WAV writer is hound's WavWriter, the decoder is rodio's Decoder.        *)

\* An f32 sample, as the rational num/den.
Sample(n, d) == [num |-> n, den |-> d]

\* The samples of the test write_and_read (0.0, -0.25, 0.25, 1.0) and 2.0.
SampleValues == {Sample(q, 4) : q \in {-1, 0, 1, 4, 8}}

Buffers ==
    [channels : {1, 2}, sample_rate : {32, 44100},
     data : SeqsUpTo(SampleValues, MaxData)]

\* A header with a hard-coded sample rate.
WavSpecFixedRate(b) ==
    [channels |-> b.channels, sample_rate |-> 44100,
     bits_per_sample |-> 32, sample_format |-> "Float"]

\* A header that declares 16-bit integer samples.
WavSpecInt16(b) ==
    [channels |-> b.channels, sample_rate |-> b.sample_rate,
     bits_per_sample |-> 16, sample_format |-> "Int"]

\* The WavSpec of path.rs:72-77.
WavSpecOf(b) ==
    [channels |-> b.channels, sample_rate |-> b.sample_rate,
     bits_per_sample |-> 32, sample_format |-> "Float"]

Absent == [kind |-> "absent"]

\* A file no decoder recognises.
Garbage == [kind |-> "garbage"]

\* A WAV file: its fmt chunk and the samples its data chunk declares.
Wav(s, d) == [kind |-> "wav", spec |-> s, data |-> d]

\* What is on disk when the writer's last flush or its header update failed:
\* an unreadable file, or a header that still declares an empty data chunk.
Unfinished(s) == {Garbage, Wav(s, <<>>)}

InitCodec ==
    /\ handle = "none" /\ misuse = FALSE
    /\ spec = Pending /\ stream = <<>> /\ wfault = "none"
    /\ writeResult = Pending
    /\ rfault = "none" /\ readResult = Pending
    /\ \/ pc = "w_create" /\ samples \in Buffers /\ file = Absent
       \/ /\ pc = "r_open"
          /\ samples = [channels |-> 1, sample_rate |-> 1, data |-> <<>>]
          /\ file \in {Absent, Garbage}
    /\ IdleName /\ IdleList

\* WavWriter::create(path, spec)? (path.rs:72-79): the file is created empty
\* and the header goes to the writer's buffer.
Create ==
    /\ pc = "w_create"
    /\ spec' = WavSpecOf(samples)
    /\ \E created \in BOOLEAN :
          IF created
          THEN /\ handle' = "open"
               /\ file' = Garbage
               /\ pc' = "w_loop"
               /\ UNCHANGED <<writeResult, wfault>>
          ELSE /\ writeResult' = Err("IoError")
               /\ wfault' = "create"
               /\ pc' = "w_done"
               /\ UNCHANGED <<handle, file>>
    /\ UNCHANGED <<misuse, samples, stream, rfault, readResult, nameVars, listVars>>

\* One turn of the loop, writer.write_sample(*sample)? (path.rs:81-83): the
\* next sample goes to the writer; a failure returns early, which drops the
\* writer, and the drop finalizes what was written as far as it can.
WriteSample ==
    /\ pc = "w_loop"
    /\ Len(stream) < Len(samples.data)
    /\ misuse' = (misuse \/ handle # "open")
    /\ \E written \in BOOLEAN :
          IF written
          THEN /\ stream' = Append(stream, samples.data[Len(stream) + 1])
               /\ UNCHANGED <<writeResult, wfault, handle, file, pc>>
          ELSE /\ writeResult' = Err("IoError")
               /\ wfault' = "write"
               /\ handle' = "closed"
               /\ file' \in Unfinished(spec) \cup {Wav(spec, stream)}
               /\ pc' = "w_done"
               /\ UNCHANGED stream
    /\ UNCHANGED <<samples, spec, rfault, readResult, nameVars, listVars>>

\* A finalization that drops a trailing partial frame from the data chunk.
FinishTruncating ==
    /\ pc = "w_loop"
    /\ Len(stream) = Len(samples.data)
    /\ writeResult' = Ok(<<>>)
    /\ handle' = "closed"
    /\ \E flushed \in BOOLEAN :
          IF flushed
          THEN /\ file' = Wav(spec, SubSeq(stream, 1,
                              (Len(stream) \div spec.channels) * spec.channels))
               /\ wfault' = IF Len(stream) % spec.channels # 0
                            THEN "unfinished sample" ELSE "none"
          ELSE /\ file' \in Unfinished(spec)
               /\ wfault' = "flush"
    /\ pc' = "w_done"
    /\ UNCHANGED <<misuse, samples, spec, stream, rfault, readResult,
                   nameVars, listVars>>

\* Ok(()) (path.rs:85-86): the writer goes out of scope and its destructor
\* finalizes the file; whatever the finalization returns is discarded.  It
\* fails when the flush or the header update fails, and with UnfinishedSample
\* (after writing everything) when the last frame is incomplete.
Finish ==
    /\ pc = "w_loop"
    /\ Len(stream) = Len(samples.data)
    /\ writeResult' = Ok(<<>>)
    /\ handle' = "closed"
    /\ \E flushed \in BOOLEAN :
          IF flushed
          THEN /\ file' = Wav(spec, stream)
               /\ wfault' = IF Len(stream) % spec.channels # 0
                            THEN "unfinished sample" ELSE "none"
          ELSE /\ file' \in Unfinished(spec)
               /\ wfault' = "flush"
    /\ pc' = "w_done"
    /\ UNCHANGED <<misuse, samples, spec, stream, rfault, readResult,
                   nameVars, listVars>>

\* File::open(&path)? (path.rs:28), on the path write_samples was given or on
\* a file that was there before.
OpenFile ==
    /\ pc \in {"w_done", "r_open"}
    /\ \E opened \in BOOLEAN :
          IF opened /\ file # Absent
          THEN /\ handle' = "open"
               /\ pc' = "r_decode"
               /\ UNCHANGED <<rfault, readResult>>
          ELSE /\ readResult' = Err("IoError")
               /\ rfault' = "open"
               /\ pc' = "r_done"
               /\ UNCHANGED handle
    /\ UNCHANGED <<misuse, samples, spec, stream, wfault, writeResult, file,
                   nameVars, listVars>>

\* The decoder recognises a WAV file; its WAV reader refuses a data chunk that
\* is not a whole number of frames.
Decodable(f) == f.kind = "wav" /\ Len(f.data) % f.spec.channels = 0

\* A decode step that answers an unreadable stream with an empty buffer.
DecodeLenient ==
    /\ pc = "r_decode"
    /\ misuse' = (misuse \/ handle # "open")
    /\ IF Decodable(file)
       THEN pc' = "r_collect" /\ UNCHANGED <<readResult, rfault, handle>>
       ELSE /\ readResult' = Ok([channels |-> 1, sample_rate |-> 1, data |-> <<>>])
            /\ rfault' = "decode"
            /\ handle' = "closed"
            /\ pc' = "r_done"
    /\ UNCHANGED <<samples, spec, stream, wfault, writeResult, file,
                   nameVars, listVars>>

\* Decoder::new(reader)? (path.rs:29-30): a failure returns early, which drops
\* the reader and the file in it.
Decode ==
    /\ pc = "r_decode"
    /\ misuse' = (misuse \/ handle # "open")
    /\ IF Decodable(file)
       THEN pc' = "r_collect" /\ UNCHANGED <<readResult, rfault, handle>>
       ELSE /\ readResult' = Err("UnsupportedFormat")
            /\ rfault' = "decode"
            /\ handle' = "closed"
            /\ pc' = "r_done"
    /\ UNCHANGED <<samples, spec, stream, wfault, writeResult, file,
                   nameVars, listVars>>

\* Integer division that rounds toward zero, as an `as i16` cast does.
Trunc(n, d) == IF n >= 0 THEN n \div d ELSE -((-n) \div d)

\* The decoder's f32 -> i16 for a float WAV: clip to [-1, 1], scale by
\* i16::MAX, truncate.
F32ToI16(s) ==
    LET n == IF s.num > s.den THEN s.den
             ELSE IF s.num < -s.den THEN -s.den ELSE s.num
    IN Trunc(n * 32767, s.den)

\* convert_samples: i16 -> f32 divides a negative sample by 32768 and any
\* other by 32767.
I16ToF32(i) == IF i < 0 THEN Sample(i, 32768) ELSE Sample(i, 32767)

\* channels, sample_rate, the collected samples and Ok(Samples::new(..))
\* (path.rs:32-35); collecting consumes the source, which drops the file.
Collect ==
    /\ pc = "r_collect"
    /\ misuse' = (misuse \/ handle # "open")
    /\ readResult' = Ok([channels |-> file.spec.channels,
                         sample_rate |-> file.spec.sample_rate,
                         data |-> [i \in 1..Len(file.data) |->
                                      I16ToF32(F32ToI16(file.data[i]))]])
    /\ handle' = "closed"
    /\ pc' = "r_done"
    /\ UNCHANGED <<samples, spec, stream, wfault, writeResult, file, rfault,
                   nameVars, listVars>>

NextCodec == Create \/ WriteSample \/ Finish \/ OpenFile \/ Decode \/ Collect

SpecCodec == InitCodec /\ [][NextCodec]_vars

\* Every operation that opens a handle, on either kind of input.
InitIO == InitList \/ InitCodec

NextIO == NextList \/ NextCodec

SpecIO == InitIO /\ [][NextIO]_vars

----------------------------------------------------------------------------
(* Claims about write_samples and read_samples.                            *)

\* write_samples has returned.
Written == writeResult # Pending

\* No step of write_samples hit an I/O failure.
WriteIoClean == wfault \notin {"create", "write", "flush"}

\* |a - b| <= 0.0001.
Close(a, b) == Abs(a.num * b.den - b.num * a.den) * 10000 <= a.den * b.den

InRange(s) == -s.den <= s.num /\ s.num <= s.den

\* s clipped to [-1, 1].
Clip(s) == IF s.num > s.den THEN Sample(1, 1)
           ELSE IF s.num < -s.den THEN Sample(-1, 1) ELSE s

WholeFrames(n, ch) == (n \div ch) * ch

SameWithinTolerance(got, want) ==
    /\ got.channels = want.channels
    /\ got.sample_rate = want.sample_rate
    /\ Len(got.data) = Len(want.data)
    /\ \A i \in 1..Len(want.data) : Close(got.data[i], want.data[i])

\* write_samples and then read_samples ran on a buffer of whole frames and no
\* I/O operation failed.
RoundTripRan ==
    /\ pc = "r_done" /\ Written
    /\ wfault = "none" /\ rfault # "open"
    /\ Len(samples.data) % samples.channels = 0

\* The buffer of the test write_and_read (path.rs:117).
TestBuffer ==
    [channels |-> 2, sample_rate |-> 32,
     data |-> <<Sample(0, 4), Sample(-1, 4), Sample(1, 4), Sample(4, 4)>>]

HeaderFixedSamplesInOrder ==
    /\ spec # Pending =>
          /\ spec.channels = samples.channels
          /\ spec.sample_rate = samples.sample_rate
          /\ spec.bits_per_sample = 32
          /\ spec.sample_format = "Float"
    /\ Len(stream) <= Len(samples.data)
    /\ \A i \in 1..Len(stream) : stream[i] = samples.data[i]
    /\ Written /\ writeResult.ok => Len(stream) = Len(samples.data)

\* The test's four distinct samples were written.
HeaderWitness ==
    /\ Written /\ writeResult.ok
    /\ samples = TestBuffer
    /\ stream = TestBuffer.data

\* C7: write_samples returns success exactly when the file was created, every
\* sample was written and the finalization succeeded, leaving the complete
\* file on disk; every failure is an IoError, and nothing is written after a
\* failed write.
SuccessMeansFinalized ==
    Written =>
        /\ writeResult.ok <=> wfault = "none"
        /\ writeResult.ok => file = Wav(spec, samples.data)
        /\ ~writeResult.ok => writeResult = Err("IoError")
        /\ wfault = "write" => Len(stream) < Len(samples.data)

PartialFrameWritten ==
    /\ Written /\ WriteIoClean
    /\ Len(samples.data) % samples.channels # 0

NoHandleOutlivesCall ==
    /\ pc \in {"list_done", "w_done", "r_done"} => handle \in {"none", "closed"}
    /\ ~misuse

\* read_samples returned early, after it had opened the file.
HandleWitness ==
    /\ pc = "r_done"
    /\ rfault = "decode"
    /\ handle = "closed"

====
